---- MODULE Spec2Model ----
(***************************************************************************)
(* A model of the activity feed of c2corg_api (views/feed.py): the three   *)
(* feed resources, the composition of the personal filter, the             *)
(* continuation-token pagination and the hydration of the fetched changes. *)
(***************************************************************************)
EXTENDS Integers, Sequences, FiniteSets, TLC

VARIABLES
    log,        \* the rows of DocumentChange, in insertion order
    user,       \* the authenticated user: preferences, FilterArea, FollowedUser
    users,      \* the rows of User, by id: email_validated, is_profile_public
    deleted,    \* ids the document retrieval does not return any more
    request,    \* the last request as the handler saw it
    response,   \* the last response
    chain,      \* what a client following the pagination tokens has got so far
    search,     \* the documents of search.get_documents, its last call
    waypoints   \* the stored waypoints, their archive, the last put

vars ==
    <<log, user, users, deleted, request, response, chain, search, waypoints>>

----------------------------------------------------------------------------
(* Bounds of the model *)

MaxLog == 3
MaxPersonalLog == 2
MaxPages == 3
MaxImageLog == 2
MaxIds == 3
MaxClientLog == 2
MaxPuts == 2

(* Program constants *)

DEFAULT_PAGE_LIMIT == 10
MAX_PAGE_LIMIT == 50

USERPROFILE_TYPE == "u"
IMAGE_TYPE == "i"
OUTING_TYPE == "o"
ROUTE_TYPE == "r"

----------------------------------------------------------------------------
(* Python values *)

\* an optional scalar: None is the empty tuple, a value v is <<v>>
None == <<>>
Some(v) == <<v>>
Val(o) == o[1]

Min(a, b) == IF a <= b THEN a ELSE b

Range(s) == {s[i] : i \in DOMAIN s}

\* datetime.isoformat(): the text of a time
isoformat(t) == ToString(t)

----------------------------------------------------------------------------
(* Universes the inputs are drawn from *)

Times == 1..2
UserIds == {1, 2}
DocumentIds == {101, 102}
ImageIds == {201, 202}
RouteIds == {301}
WaypointIds == {401, 402, 403}
AreaIds == {11, 12}
Activities == {"skitouring", "hiking"}

----------------------------------------------------------------------------
(* Filter conditions of the change-log query (SQLAlchemy expressions) *)

\* Python's None as a filter condition
NoFilter == [op |-> "None"]

\* DocumentChange.<column>.op('&&')(<array>): the two arrays overlap
Overlaps(column, array) == [op |-> "&&", column |-> column, array |-> array]

and_(l, r) == [op |-> "and", l |-> l, r |-> r]

or_(l, r) == [op |-> "or", l |-> l, r |-> r]

\* the array of a column of a change, as a set
Column(c, column) ==
    CASE column = "user_ids" -> Range(c.user_ids)
      [] column = "area_ids" -> c.area_ids
      [] column = "activities" -> c.activities

RECURSIVE Matches(_, _)
\* the row c satisfies the filter condition f
Matches(f, c) ==
    CASE f.op = "&&" -> Column(c, f.column) \cap f.array # {}
      [] f.op = "and" -> Matches(f.l, c) /\ Matches(f.r, c)
      [] f.op = "or" -> Matches(f.l, c) \/ Matches(f.r, c)

----------------------------------------------------------------------------
(* The user's derived attributes (column properties of User) *)

has_area_filter(u) == u.areas # {}

is_following_users(u) == u.followed # {}

----------------------------------------------------------------------------
(* views/feed.py *)

get_params(validated) ==
    [token_id |-> validated.token_id,
     token_time |-> validated.token_time,
     limit |-> Min(IF validated.limit = None THEN DEFAULT_PAGE_LIMIT
                   ELSE Val(validated.limit),
                   MAX_PAGE_LIMIT)]

\* the sequence s, the last element first
Reverse(s) == [i \in DOMAIN s |-> s[Len(s) + 1 - i]]

RECURSIVE order_by_desc(_)
\* the rows ordered by time and change_id, both descending
order_by_desc(rows) ==
    IF rows = <<>> THEN <<>>
    ELSE LET t == CHOOSE t \in {rows[i].time : i \in DOMAIN rows} :
                      \A i \in DOMAIN rows : rows[i].time <= t
         IN  Reverse(SelectSeq(rows, LAMBDA c : c.time = t))
                 \o order_by_desc(SelectSeq(rows, LAMBDA c : c.time # t))

RECURSIVE order_by(_)
\* order_by(DocumentChange.time.desc(), DocumentChange.change_id): the rows
\* in the order of the query.  The rows are given by ascending
\* change_id (the primary key; the log is kept in that order): the rows of
\* the latest time come first, in the order given, then the other rows
order_by(rows) ==
    IF rows = <<>> THEN <<>>
    ELSE LET t == CHOOSE t \in {rows[i].time : i \in DOMAIN rows} :
                      \A i \in DOMAIN rows : rows[i].time <= t
         IN  SelectSeq(rows, LAMBDA c : c.time = t)
                 \o order_by(SelectSeq(rows, LAMBDA c : c.time # t))

\* a limit that lets one row more through
limit_one_more(ordered, limit) ==
    SubSeq(ordered, 1, Min(limit + 1, Len(ordered)))

\* query.limit(limit), for limit >= 0
limit_(ordered, limit) ==
    SubSeq(ordered, 1, Min(limit, Len(ordered)))

\* the pagination filter with the change of the token let through again
pagination_filter_from_token(c, token_id, token_time) ==
    \/ c.time < Val(token_time)
    \/ c.time = Val(token_time) /\ c.change_id >= Val(token_id)

\* the pagination filter without the changes of the time of the token
pagination_filter_time_only(c, token_id, token_time) ==
    c.time < Val(token_time)

\* the pagination filter with every change of the time of the token let
\* through
pagination_filter_same_time(c, token_id, token_time) ==
    c.time <= Val(token_time)

\* the pagination filter of get_changes_of_feed
pagination_filter(c, token_id, token_time) ==
    \/ c.time < Val(token_time)
    \/ c.time = Val(token_time) /\ c.change_id > Val(token_id)

\* get_changes_of_feed with 'if token_id and token_time': the id 0 of a
\* token counts as no id
get_changes_of_feed_truthy_id(token_id, token_time, limit, extra_filter) ==
    LET paginated == token_id # None /\ Val(token_id) # 0 /\ token_time # None
        rows == SelectSeq(log, LAMBDA c :
                    /\ paginated => pagination_filter(c, token_id, token_time)
                    /\ extra_filter # NoFilter => Matches(extra_filter, c))
    IN  limit_(order_by(rows), limit)

\* the rows get_changes_of_feed returns, for limit >= 0
get_changes_of_feed(token_id, token_time, limit, extra_filter) ==
    LET paginated == token_id # None /\ token_time # None
        rows == SelectSeq(log, LAMBDA c :
                    /\ paginated => pagination_filter(c, token_id, token_time)
                    /\ extra_filter # NoFilter => Matches(extra_filter, c))
    IN  limit_(order_by(rows), limit)

create_followed_users_filter(u) ==
    IF ~is_following_users(u) THEN NoFilter
    ELSE Overlaps("user_ids", u.followed)

create_area_filter(u) ==
    IF ~has_area_filter(u) THEN NoFilter
    ELSE Overlaps("area_ids", u.areas)

create_activity_filter(u) ==
    IF u.feed_filter_activities = {} THEN NoFilter
    ELSE Overlaps("activities", u.feed_filter_activities)

\* area and activity, `or` connected
area_activity_filter_or(u) ==
    LET area_filter == create_area_filter(u)
        activity_filter == create_activity_filter(u)
    IN  IF area_filter # NoFilter /\ activity_filter # NoFilter
        THEN or_(area_filter, activity_filter)
        ELSE IF area_filter # NoFilter THEN area_filter
        ELSE activity_filter

\* the first half of create_personal_filter: area and activity, `and` connected
area_activity_filter(u) ==
    IF u.feed_filter_activities # {} \/ has_area_filter(u)
    THEN LET area_filter == create_area_filter(u)
             activity_filter == create_activity_filter(u)
         IN  IF area_filter # NoFilter /\ activity_filter # NoFilter
             THEN and_(area_filter, activity_filter)
             ELSE IF area_filter # NoFilter THEN area_filter
             ELSE IF activity_filter # NoFilter THEN activity_filter
             ELSE NoFilter
    ELSE NoFilter

\* create_personal_filter with the followed users as the filter of a user
\* without area and activity filter
create_personal_filter_followed(u) ==
    IF u.feed_followed_only THEN create_followed_users_filter(u)
    ELSE LET aa == area_activity_filter(u)
             followed_users_filter == create_followed_users_filter(u)
         IN  IF aa # NoFilter /\ followed_users_filter # NoFilter
             THEN or_(aa, followed_users_filter)
             ELSE IF aa # NoFilter THEN aa
             ELSE followed_users_filter

create_personal_filter(u) ==
    IF u.feed_followed_only THEN create_followed_users_filter(u)
    ELSE LET aa == area_activity_filter(u)
         IN  IF aa = NoFilter THEN NoFilter
             ELSE LET followed_users_filter ==
                          IF is_following_users(u)
                          THEN create_followed_users_filter(u)
                          ELSE NoFilter
                  IN  IF aa # NoFilter /\ followed_users_filter # NoFilter
                      THEN or_(aa, followed_users_filter)
                      ELSE IF aa # NoFilter THEN aa
                      ELSE IF followed_users_filter # NoFilter
                      THEN followed_users_filter
                      ELSE NoFilter

has_no_custom_filter(u) ==
    ~ (\/ u.feed_filter_activities # {}
       \/ has_area_filter(u)
       \/ is_following_users(u)
       \/ u.feed_followed_only)

\* the filter condition get_changes_of_personal_feed hands to the query
personal_feed_filter(u) ==
    IF has_no_custom_filter(u) THEN NoFilter
    ELSE create_personal_filter(u)

----------------------------------------------------------------------------
(* Hydration *)

\* the document type of an id of the data base
TypeOf(id) ==
    IF id \in UserIds THEN USERPROFILE_TYPE
    ELSE IF id \in ImageIds THEN IMAGE_TYPE
    ELSE IF id \in RouteIds THEN ROUTE_TYPE
    ELSE OUTING_TYPE

\* document_listings.get_documents_for_ids(...).get('documents'): one batched
\* retrieval of the documents of one type; an id that does not resolve is
\* left out
get_documents_for_ids(document_ids, document_type) ==
    {[document_id |-> id, type |-> document_type] :
        id \in {i \in document_ids : i \notin deleted /\ TypeOf(i) = document_type}}

\* the images a change refers to
image_ids(c) ==
    {Val(o) : o \in {i \in {c.image1_id, c.image2_id, c.image3_id} : i # None}}

\* get_documents_to_load with the actor of a change only under the profile
\* type, without the other users of the change
get_documents_to_load_actor_only(changes) ==
    LET cs == Range(changes)
        types == {c.document_type : c \in cs}
                 \cup (IF cs # {} THEN {USERPROFILE_TYPE} ELSE {})
                 \cup (IF \E c \in cs : image_ids(c) # {} THEN {IMAGE_TYPE} ELSE {})
    IN  [t \in types |->
            {c.document_id : c \in {d \in cs : d.document_type = t}}
            \cup (IF t = USERPROFILE_TYPE
                  THEN {c.user_id : c \in cs}
                  ELSE {})
            \cup (IF t = IMAGE_TYPE
                  THEN UNION {image_ids(c) : c \in cs}
                  ELSE {})]

get_documents_to_load(changes) ==
    LET cs == Range(changes)
        types == {c.document_type : c \in cs}
                 \cup (IF cs # {} THEN {USERPROFILE_TYPE} ELSE {})
                 \cup (IF \E c \in cs : image_ids(c) # {} THEN {IMAGE_TYPE} ELSE {})
    IN  [t \in types |->
            {c.document_id : c \in {d \in cs : d.document_type = t}}
            \cup (IF t = USERPROFILE_TYPE
                  THEN UNION {{c.user_id} \cup Range(c.user_ids) : c \in cs}
                  ELSE {})
            \cup (IF t = IMAGE_TYPE
                  THEN UNION {image_ids(c) : c \in cs}
                  ELSE {})]

\* one retrieval for every id of every type
items_per_id(documents_to_load) ==
    LET ids == UNION {documents_to_load[t] : t \in DOMAIN documents_to_load}
        type_of(id) == CHOOSE t \in DOMAIN documents_to_load :
                           id \in documents_to_load[t]
        order == CHOOSE seq \in [1..Cardinality(ids) -> ids] :
                     \A i, j \in DOMAIN seq : i # j => seq[i] # seq[j]
    IN  [i \in DOMAIN order |->
            [document_type |-> type_of(order[i]), document_ids |-> {order[i]}]]

RECURSIVE items(_)
\* documents_to_load.items(): the pairs of a document type and the ids of
\* that type, one pair for every key, each of them one batched retrieval of
\* load_documents
items(documents_to_load) ==
    IF DOMAIN documents_to_load = {} THEN <<>>
    ELSE LET t == CHOOSE t \in DOMAIN documents_to_load : TRUE
         IN  <<[document_type |-> t, document_ids |-> documents_to_load[t]]>>
             \o items([k \in DOMAIN documents_to_load \ {t} |->
                          documents_to_load[k]])

load_documents(documents_to_load) ==
    LET calls == items(documents_to_load)
        docs == UNION {get_documents_for_ids(calls[i].document_ids,
                                             calls[i].document_type) :
                          i \in DOMAIN calls}
    IN  [id \in {d.document_id : d \in docs} |->
            CHOOSE d \in docs : d.document_id = id]

\* '{},{}'.format(change_id, time.isoformat())
pagination_token(change_id, time) ==
    ToString(change_id) \o "," \o isoformat(time)

\* documents[id] if id and documents.get(id) else None
image_or_none(documents, id) ==
    IF id # None /\ Val(id) \in DOMAIN documents
    THEN Some(documents[Val(id)])
    ELSE None

\* the changes whose user was loaded
loaded_changes_user_only(changes, documents) ==
    SelectSeq(changes, LAMBDA c : c.user_id \in DOMAIN documents)

\* the changes whose user, document and images were all loaded
loaded_changes_images_too(changes, documents) ==
    SelectSeq(changes,
              LAMBDA c : /\ c.user_id \in DOMAIN documents
                         /\ c.document_id \in DOMAIN documents
                         /\ image_ids(c) \subseteq DOMAIN documents)

\* the changes load_feed keeps: those whose user and document were loaded
loaded_changes(changes, documents) ==
    SelectSeq(changes,
              LAMBDA c : /\ c.user_id \in DOMAIN documents
                         /\ c.document_id \in DOMAIN documents)

\* one entry of the feed, with the actor among the participants
feed_entry_with_actor(c, documents) ==
    [id |-> c.change_id,
     time |-> isoformat(c.time),
     user |-> documents[c.user_id],
     participants |->
        LET ids == SelectSeq(c.user_ids, LAMBDA u : u \in DOMAIN documents)
        IN  [i \in DOMAIN ids |-> documents[ids[i]]],
     change_type |-> c.change_type,
     document |-> documents[c.document_id],
     image1 |-> image_or_none(documents, c.image1_id),
     image2 |-> image_or_none(documents, c.image2_id),
     image3 |-> image_or_none(documents, c.image3_id),
     more_images |-> c.more_images]

\* one entry of the feed
feed_entry(c, documents) ==
    [id |-> c.change_id,
     time |-> isoformat(c.time),
     user |-> documents[c.user_id],
     participants |->
        LET ids == SelectSeq(c.user_ids,
                             LAMBDA u : u # c.user_id /\ u \in DOMAIN documents)
        IN  [i \in DOMAIN ids |-> documents[ids[i]]],
     change_type |-> c.change_type,
     document |-> documents[c.document_id],
     image1 |-> image_or_none(documents, c.image1_id),
     image2 |-> image_or_none(documents, c.image2_id),
     image3 |-> image_or_none(documents, c.image3_id),
     more_images |-> c.more_images]

\* the response of a handler that raised
Raised(status) == [status |-> status]

\* the response of a handler that returned a body
Ok(body) == [status |-> 200, body |-> body]

\* the end of load_feed with a token also when no change is kept: the token
\* of the last change fetched
build_feed_token_when_fetched(fetched, documents, changes) ==
    IF changes = <<>>
    THEN Ok([feed |-> <<>>,
             pagination_token |->
                pagination_token(fetched[Len(fetched)].change_id,
                                 fetched[Len(fetched)].time)])
    ELSE Ok([feed |-> [i \in DOMAIN changes |->
                          feed_entry(changes[i], documents)],
             pagination_token |->
                pagination_token(changes[Len(changes)].change_id,
                                 changes[Len(changes)].time)])

\* the end of load_feed with the token of the last change fetched instead of
\* the last change kept
build_feed_raw_token(fetched, documents, changes) ==
    IF changes = <<>> THEN Ok([feed |-> <<>>])
    ELSE Ok([feed |-> [i \in DOMAIN changes |->
                          feed_entry(changes[i], documents)],
             pagination_token |->
                pagination_token(fetched[Len(fetched)].change_id,
                                 fetched[Len(fetched)].time)])

\* the end of load_feed: the feed of the changes that were fetched, given
\* the documents that were loaded
build_feed(fetched, documents, changes) ==
    IF changes = <<>> THEN Ok([feed |-> <<>>])
    ELSE IF \E i \in DOMAIN changes :
                \/ changes[i].user_id \notin DOMAIN documents
                \/ changes[i].document_id \notin DOMAIN documents
    THEN Raised(500)    \* KeyError in documents[...]
    ELSE Ok([feed |-> [i \in DOMAIN changes |->
                          feed_entry(changes[i], documents)],
             pagination_token |->
                pagination_token(changes[Len(changes)].change_id,
                                 changes[Len(changes)].time)])

\* load_feed, once the documents are loaded
load_feed_of(fetched, documents) ==
    build_feed(fetched, documents, loaded_changes(fetched, documents))

load_feed(fetched) ==
    IF fetched = <<>> THEN Ok([feed |-> <<>>])
    ELSE load_feed_of(fetched, load_documents(get_documents_to_load(fetched)))

----------------------------------------------------------------------------
(* search/search.py *)

\* the rows the query of get_documents returns: the documents of the ids
\* that are not merged into another document
documents_query(document_ids, documents) ==
    {doc \in documents :
        doc.redirects_to = None /\ doc.document_id \in Range(document_ids)}

RECURSIVE ascending(_)
\* the documents of the set, by ascending document_id
ascending(docs) ==
    IF docs = {} THEN <<>>
    ELSE LET first == CHOOSE d \in docs :
                          \A e \in docs : d.document_id <= e.document_id
         IN  <<first>> \o ascending(docs \ {first})

\* get_documents with the documents in the order of the table
get_documents_table_order(document_ids, documents) ==
    IF document_ids = <<>> THEN <<>>
    ELSE ascending(documents_query(document_ids, documents))

get_documents(document_ids, documents) ==
    IF document_ids = <<>> THEN <<>>
    ELSE LET found == documents_query(document_ids, documents)
             document_index == [id \in {doc.document_id : doc \in found} |->
                                   CHOOSE doc \in found : doc.document_id = id]
             ids == SelectSeq(document_ids, LAMBDA id : id \in DOMAIN document_index)
         IN  [i \in DOMAIN ids |-> document_index[ids[i]]]

----------------------------------------------------------------------------
(* Requests *)

\* validation.validate_token_pagination: the token 'id,time' and the limit of
\* the query string, as the handlers find them in request.validated
validate_token_pagination(token, limit) ==
    IF token = None
    THEN [token_id |-> None, token_time |-> None, limit |-> limit]
    ELSE LET p == CHOOSE p \in (0..(Len(log) + 1)) \X Times :
                      pagination_token(p[1], p[2]) = Val(token)
         IN  [token_id |-> Some(p[1]), token_time |-> Some(p[2]), limit |-> limit]

\* the well-formed tokens a client may send
AnyToken ==
    {None} \cup {Some(pagination_token(i, t)) : i \in 0..(Len(log) + 1), t \in Times}

NoChain == [kind |-> "none", pages |-> <<>>, token |-> None, fixed |-> FALSE]

\* the pagination token of a response, if it has one
token_of(resp) ==
    IF resp.status = 200 /\ "pagination_token" \in DOMAIN resp.body
    THEN Some(resp.body.pagination_token)
    ELSE None

\* the change ids of the feed of a response
ids_of(resp) ==
    IF resp.status = 200
    THEN [i \in DOMAIN resp.body.feed |-> resp.body.feed[i].id]
    ELSE <<>>

\* the request continues the chain: it sends the token the chain ended with
Continues(kind, token) ==
    /\ token # None
    /\ chain.pages # <<>>
    /\ chain.kind = kind
    /\ chain.token = token

\* what the client keeps of one request: the limit asked for, the status, the
\* ids of the changes fetched and of the entries of the feed, and the length
\* of the log at the time
Page(limit, changes, resp) ==
    [limit |-> limit,
     status |-> resp.status,
     fetched |-> [i \in DOMAIN changes |-> changes[i].change_id],
     ids |-> ids_of(resp),
     size |-> Len(log)]

\* the chain after a request: a request without token starts a chain, a
\* request with the last token of the chain continues it
chain_after(kind, token, page, resp) ==
    IF token = None
    THEN [kind |-> kind, pages |-> <<page>>, token |-> token_of(resp),
          fixed |-> TRUE]
    ELSE IF Continues(kind, token)
    THEN [chain EXCEPT !.pages = Append(@, page), !.token = token_of(resp)]
    ELSE NoChain

\* the end of a feed handler: the changes of the query are turned into the
\* response
Respond(kind, token, limit, p, extra_filter, changes, resp) ==
    /\ request' = [kind |-> kind, token |-> token, limit |-> limit,
                   params |-> p,
                   extra_filter |-> extra_filter,
                   fetched |-> [i \in DOMAIN changes |-> changes[i].change_id],
                   documents_to_load |-> get_documents_to_load(changes),
                   retrievals |-> items(get_documents_to_load(changes)),
                   loaded |-> DOMAIN load_documents(get_documents_to_load(changes))]
    /\ response' = resp
    /\ chain' = chain_after(kind, token, Page(limit, changes, resp), resp)
    /\ UNCHANGED <<log, user, users, deleted, search, waypoints>>

\* a feed handler with the parameters p: the query of the handler, load_feed
Query(kind, token, limit, p, extra_filter, changes) ==
    Respond(kind, token, limit, p, extra_filter, changes, load_feed(changes))

\* a feed handler: get_params, then the query and load_feed; the data base
\* rejects a negative LIMIT
Serve(kind, token, limit, extra_filter) ==
    LET p == get_params(validate_token_pagination(token, limit))
    IN  /\ ~ (Continues(kind, token) /\ Len(chain.pages) >= MaxPages)
        /\ IF p.limit < 0
           THEN Respond(kind, token, limit, p, extra_filter, <<>>, Raised(500))
           ELSE Query(kind, token, limit, p, extra_filter,
                      get_changes_of_feed(
                          p.token_id, p.token_time, p.limit, extra_filter))

\* FeedRest.get
FeedGet(token, limit) ==
    Serve("feed", token, limit, NoFilter)

\* the validation of the token: a token is accepted when it is the text
\* '<id>,<time>' of an integer id and a time
token_is_valid(token) ==
    \/ token = None
    \/ \E p \in (0..(Len(log) + 1)) \X Times :
          pagination_token(p[1], p[2]) = Val(token)

\* the view of FeedRest.get: a request the validators find an error in is
\* answered with 400 and get is not called
FeedView(token, limit) ==
    IF token_is_valid(token)
    THEN FeedGet(token, limit)
    ELSE Respond("feed", token, limit,
                 [token_id |-> None, token_time |-> None, limit |-> 0],
                 NoFilter, <<>>, Raised(400))

\* PersonalFeedRest.get
PersonalFeedGet(token, limit) ==
    Serve("personal", token, limit, personal_feed_filter(user))

\* the requested user of ProfileFeedRest.get, without the filter on
\* User.email_validated
requested_user_any(requested_user_id) ==
    IF requested_user_id \in DOMAIN users
    THEN Some(users[requested_user_id])
    ELSE None

\* DBSession.query(User).filter(User.id == requested_user_id)
\*     .filter(User.email_validated).first()
requested_user_of(requested_user_id) ==
    IF /\ requested_user_id \in DOMAIN users
       /\ users[requested_user_id].email_validated
    THEN Some(users[requested_user_id])
    ELSE None

\* the end of ProfileFeedRest.get: steps are the queries that were made
ProfileRespond(u, authenticated, token, limit, p, steps, changes, resp) ==
    /\ request' = [kind |-> "profile", u |-> u,
                   authenticated |-> authenticated,
                   token |-> token, limit |-> limit,
                   params |-> p,
                   extra_filter |-> Overlaps("user_ids", {u}),
                   fetched |-> [i \in DOMAIN changes |-> changes[i].change_id],
                   documents_to_load |-> get_documents_to_load(changes),
                   retrievals |-> items(get_documents_to_load(changes)),
                   loaded |-> DOMAIN load_documents(get_documents_to_load(changes)),
                   steps |-> steps]
    /\ response' = resp
    /\ UNCHANGED <<log, user, users, deleted, chain, search, waypoints>>

\* the end of get_changes_of_profile_feed and load_feed
ProfileQuery(u, authenticated, token, limit, p, steps, changes) ==
    ProfileRespond(u, authenticated, token, limit, p,
                   IF changes = <<>> THEN steps
                   ELSE Append(steps, "load_documents"),
                   changes, load_feed(changes))

\* get_changes_of_profile_feed without the filter on user_ids
get_changes_of_profile_feed_unfiltered(u, authenticated, token, limit, p, steps) ==
    IF u \notin DOMAIN users
    THEN ProfileRespond(u, authenticated, token, limit, p,
                        Append(steps, "User.exists"), <<>>, Raised(404))
    ELSE IF p.limit < 0
    THEN ProfileRespond(u, authenticated, token, limit, p,
                        steps \o <<"User.exists", "DocumentChange">>,
                        <<>>, Raised(500))
    ELSE ProfileQuery(u, authenticated, token, limit, p,
                      steps \o <<"User.exists", "DocumentChange">>,
                      get_changes_of_feed(p.token_id, p.token_time, p.limit,
                                          NoFilter))

\* get_changes_of_profile_feed, then load_feed; the data base rejects a
\* negative LIMIT
get_changes_of_profile_feed(u, authenticated, token, limit, p, steps) ==
    IF u \notin DOMAIN users
    THEN ProfileRespond(u, authenticated, token, limit, p,
                        Append(steps, "User.exists"), <<>>, Raised(404))
    ELSE IF p.limit < 0
    THEN ProfileRespond(u, authenticated, token, limit, p,
                        steps \o <<"User.exists", "DocumentChange">>,
                        <<>>, Raised(500))
    ELSE ProfileQuery(u, authenticated, token, limit, p,
                      steps \o <<"User.exists", "DocumentChange">>,
                      get_changes_of_feed(p.token_id, p.token_time, p.limit,
                                          Overlaps("user_ids", {u})))

\* ProfileFeedRest.get with the feed fetched before the requested user is
\* looked at
ProfileFeedGet_fetch_first(u, authenticated, token, limit) ==
    LET p == get_params(validate_token_pagination(token, limit))
        requested_user == requested_user_of(u)
        steps == <<"DocumentChange", "User">>
        changes == IF p.limit < 0 THEN <<>>
                   ELSE get_changes_of_feed(p.token_id, p.token_time, p.limit,
                                            Overlaps("user_ids", {u}))
    IN  IF requested_user = None
        THEN ProfileRespond(u, authenticated, token, limit, p, steps,
                            changes, Raised(404))
        ELSE IF Val(requested_user).is_profile_public \/ authenticated
        THEN ProfileQuery(u, authenticated, token, limit, p, steps, changes)
        ELSE ProfileRespond(u, authenticated, token, limit, p, steps,
                            changes, Raised(403))

\* ProfileFeedRest.get
ProfileFeedGet(u, authenticated, token, limit) ==
    LET p == get_params(validate_token_pagination(token, limit))
        requested_user == requested_user_of(u)
        steps == <<"User">>
    IN  IF requested_user = None
        THEN ProfileRespond(u, authenticated, token, limit, p, steps,
                            <<>>, Raised(404))
        ELSE IF Val(requested_user).is_profile_public \/ authenticated
        THEN get_changes_of_profile_feed(u, authenticated, token, limit, p, steps)
        ELSE ProfileRespond(u, authenticated, token, limit, p, steps,
                            <<>>, Raised(403))

----------------------------------------------------------------------------
(* The environment: writers of the change log, deletion of documents *)

DocumentChange(change_id, time, user_id, user_ids, document_id, area_ids, activities) ==
    [change_id |-> change_id,
     time |-> time,
     user_id |-> user_id,
     user_ids |-> user_ids,
     document_id |-> document_id,
     document_type |-> TypeOf(document_id),
     change_type |-> "created",
     area_ids |-> area_ids,
     activities |-> activities,
     image1_id |-> None,
     image2_id |-> None,
     image3_id |-> None,
     more_images |-> FALSE]

\* the change c with up to three images attached
with_images(c, images, more_images) ==
    [c EXCEPT !.image1_id = images[1], !.image2_id = images[2],
              !.image3_id = images[3], !.more_images = more_images]

\* a change is added to the log; its id is the next one of the sequence
AppendChange(c) ==
    /\ c.change_id = Len(log) + 1
    /\ log' = Append(log, c)
    /\ chain' = [chain EXCEPT !.fixed = FALSE]
    /\ UNCHANGED <<user, users, deleted, request, response, search, waypoints>>

\* a document is deleted (or merged, or hidden): it does not resolve any more
DeleteDocument(id) ==
    /\ id \notin deleted
    /\ deleted' = deleted \cup {id}
    /\ chain' = [chain EXCEPT !.fixed = FALSE]
    /\ UNCHANGED <<log, user, users, request, response, search, waypoints>>

NoUser ==
    [feed_followed_only |-> FALSE, feed_filter_activities |-> {},
     areas |-> {}, followed |-> {}]

\* a row of User
User(id, email_validated, is_profile_public) ==
    [id |-> id, email_validated |-> email_validated,
     is_profile_public |-> is_profile_public]

\* every user registered, with the email validated and a private profile
AllValidated == [id \in UserIds |-> User(id, TRUE, FALSE)]

\* the documents of the search, no call of get_documents yet
NoSearch ==
    [documents |-> {}, called |-> FALSE, document_ids |-> <<>>, result |-> <<>>]

\* no waypoint stored, no version archived, no put yet
NoWaypoints ==
    [table |-> [id \in {} |-> None], archive |-> 0,
     read |-> [client \in {1, 2} |-> None],
     puts |-> 0, prev |-> None, last |-> None]

NoRequest ==
    [kind |-> "none", token |-> None, limit |-> None,
     params |-> [token_id |-> None, token_time |-> None, limit |-> DEFAULT_PAGE_LIMIT],
     extra_filter |-> NoFilter, fetched |-> <<>>, documents_to_load |-> <<>>,
     retrievals |-> <<>>, loaded |-> {}]

----------------------------------------------------------------------------
(* Spec: the global feed and its pagination.  The log starts empty and    *)
(* grows by single changes, or it starts as a log longer than the largest *)
(* page; the document 101 may be deleted at any time.                     *)

\* a log of more changes than the largest page holds: two times, shared by
\* many changes, and every third change on the document 101
LongLog ==
    [i \in 1..(MAX_PAGE_LIMIT + 1) |->
        DocumentChange(i, (i % 2) + 1, 1, <<1>>,
                       IF i % 3 = 0 THEN 101 ELSE 102, {}, {})]

\* the limits a client asks for: small ones on a short log, the ones around
\* the default and the maximum on the long log
Limits ==
    IF Len(log) <= MaxLog
    THEN {Some(1), Some(2)}
    ELSE {None, Some(1), Some(MAX_PAGE_LIMIT), Some(MAX_PAGE_LIMIT + 1)}

\* the tokens of a client that follows the pagination: none, or the last one
Tokens == {None, chain.token}

Init ==
    /\ log \in {<<>>, LongLog}
    /\ user = NoUser
    /\ users = AllValidated
    /\ search = NoSearch
    /\ waypoints = NoWaypoints
    /\ deleted = {}
    /\ request = NoRequest
    /\ response = Ok([feed |-> <<>>])
    /\ chain = NoChain

Write ==
    /\ Len(log) < MaxLog
    /\ \E t \in Times, d \in DocumentIds :
        AppendChange(DocumentChange(Len(log) + 1, t, 1, <<1>>, d, {}, {}))

Delete == DeleteDocument(101)

Feed == \E token \in Tokens, limit \in Limits : FeedGet(token, limit)

Next == Write \/ Delete \/ Feed

Spec == Init /\ [][Next]_vars

\* SpecShort: the same, from the empty log only
InitShort == Init /\ log = <<>>

SpecShort == InitShort /\ [][Next]_vars

----------------------------------------------------------------------------
(* SpecPersonal: the personal feed of a user with any preferences, on a   *)
(* log written before the user asks for the feed                          *)

Preferences ==
    [feed_followed_only : BOOLEAN,
     feed_filter_activities : {{}, {"skitouring"}},
     areas : {{}, {11}},
     followed : {{}, {2}}]

InitPersonal ==
    /\ log = <<>>
    /\ user \in Preferences
    /\ users = AllValidated
    /\ search = NoSearch
    /\ waypoints = NoWaypoints
    /\ deleted = {}
    /\ request = NoRequest
    /\ response = Ok([feed |-> <<>>])
    /\ chain = NoChain

WriteForUsers ==
    /\ Len(log) < MaxPersonalLog
    /\ request.kind = "none"
    /\ \E user_ids \in {<<1>>, <<1, 2>>}, area \in AreaIds, activity \in Activities :
          AppendChange(DocumentChange(Len(log) + 1, 1, 1, user_ids, 102,
                                      {area}, {activity}))

SomeLimit == {None, Some(1)}

PersonalFeed ==
    \E token \in Tokens, limit \in SomeLimit : PersonalFeedGet(token, limit)

NextPersonal == WriteForUsers \/ PersonalFeed

SpecPersonal == InitPersonal /\ [][NextPersonal]_vars

----------------------------------------------------------------------------
(* SpecHydrate: the global feed of changes of two users on two documents, *)
(* the user 1 and the document 101 may be deleted at any time             *)

WriteByAnyUser ==
    /\ Len(log) < MaxLog
    /\ \E u \in UserIds, d \in DocumentIds :
          AppendChange(DocumentChange(Len(log) + 1, 1, u, <<u>>, d, {}, {}))

DeleteAny == \E id \in {1, 101} : DeleteDocument(id)

FirstPage == \E limit \in {None, Some(2)} : FeedGet(None, limit)

NextHydrate == WriteByAnyUser \/ DeleteAny \/ FirstPage

SpecHydrate == InitShort /\ [][NextHydrate]_vars

----------------------------------------------------------------------------
(* SpecResume: the global feed, asked for with any well-formed token, on *)
(* a log written before                                                  *)

WriteAtAnyTime ==
    /\ Len(log) < MaxLog
    /\ request.kind = "none"
    /\ \E t \in Times :
        AppendChange(DocumentChange(Len(log) + 1, t, 1, <<1>>, 102, {}, {}))

FeedAnyToken ==
    \E token \in AnyToken, limit \in {Some(1), Some(2)} :
        FeedGet(token, limit)

NextResume == WriteAtAnyTime \/ FeedAnyToken

SpecResume == InitShort /\ [][NextResume]_vars

----------------------------------------------------------------------------
(* SpecImages: the global feed of changes with images, on a log written *)
(* and with documents and images deleted before the feed is asked for   *)

\* the images of a change: none, one, two or three
ImageChoices ==
    {<<None, None, None>>,
     <<Some(201), None, None>>,
     <<None, Some(202), None>>,
     <<Some(201), Some(202), None>>,
     <<Some(202), Some(201), None>>,
     <<Some(201), Some(202), Some(201)>>}

WriteWithImages ==
    /\ Len(log) < MaxImageLog
    /\ request.kind = "none"
    /\ \E d \in DocumentIds, images \in ImageChoices :
          AppendChange(with_images(
              DocumentChange(Len(log) + 1, 1, 1, <<1>>, d, {}, {}),
              images, images[3] # None))

DeleteBefore ==
    /\ request.kind = "none"
    /\ \E id \in {101} \cup ImageIds : DeleteDocument(id)

FeedOfImages == \E limit \in SomeLimit : FeedGet(None, limit)

NextImages == WriteWithImages \/ DeleteBefore \/ FeedOfImages

SpecImages == InitShort /\ [][NextImages]_vars

----------------------------------------------------------------------------
(* SpecProfile: the profile feed of any user, asked for by anybody, on a *)
(* log written and with users registered before                          *)

\* a user registers: the email is not validated yet, the profile private
Register ==
    /\ request.kind = "none"
    /\ \E id \in UserIds \ DOMAIN users :
          users' = [i \in DOMAIN users \cup {id} |->
                       IF i = id THEN User(id, FALSE, FALSE) ELSE users[i]]
    /\ UNCHANGED <<log, user, deleted, request, response, chain, search, waypoints>>

\* a user validates the email
ValidateEmail ==
    /\ request.kind = "none"
    /\ \E id \in DOMAIN users :
          /\ ~users[id].email_validated
          /\ users' = [users EXCEPT ![id].email_validated = TRUE]
    /\ UNCHANGED <<log, user, deleted, request, response, chain, search, waypoints>>

\* a user makes the profile public
PublishProfile ==
    /\ request.kind = "none"
    /\ \E id \in DOMAIN users :
          /\ ~users[id].is_profile_public
          /\ users' = [users EXCEPT ![id].is_profile_public = TRUE]
    /\ UNCHANGED <<log, user, deleted, request, response, chain, search, waypoints>>

InitProfile ==
    /\ log = <<>>
    /\ user = NoUser
    /\ users = <<>>
    /\ deleted = {}
    /\ request = NoRequest
    /\ response = Ok([feed |-> <<>>])
    /\ chain = NoChain
    /\ search = NoSearch
    /\ waypoints = NoWaypoints

WriteOfUsers ==
    /\ Len(log) < MaxPersonalLog
    /\ request.kind = "none"
    /\ \E u \in UserIds, user_ids \in {<<1>>, <<2>>, <<1, 2>>} :
          /\ u \in Range(user_ids)
          /\ AppendChange(DocumentChange(Len(log) + 1, 1, u, user_ids, 102,
                                         {}, {}))

ProfileTokens == {None, Some(pagination_token(1, 1))}

ProfileLimits == {None, Some(1), Some(-1)}

ProfileFeed ==
    \E u \in UserIds, authenticated \in BOOLEAN,
       token \in ProfileTokens, limit \in ProfileLimits :
        ProfileFeedGet(u, authenticated, token, limit)

NextProfile ==
    Register \/ ValidateEmail \/ PublishProfile \/ WriteOfUsers \/ ProfileFeed

SpecProfile == InitProfile /\ [][NextProfile]_vars

----------------------------------------------------------------------------
(* SpecToken: the global feed, asked for with any token, well-formed or *)
(* not, on a log written before                                         *)

\* tokens that are not '<id>,<time>': a part is missing or is not a number
MalformedTokens ==
    {Some("1"), Some("1,"), Some(",1"), Some("x,1"), Some("1,x"), Some("1;1")}

FeedAnyCursor ==
    \E token \in AnyToken \cup MalformedTokens, limit \in {Some(1), Some(2)} :
        FeedView(token, limit)

NextToken == WriteAtAnyTime \/ FeedAnyCursor

SpecToken == InitShort /\ [][NextToken]_vars

----------------------------------------------------------------------------
(* SpecLoad: the global feed of changes of two users on an outing and a *)
(* route, with or without an image; a user, the outing and the image    *)
(* may be deleted before the feed is asked for                          *)

WriteOfTypes ==
    /\ Len(log) < MaxImageLog
    /\ request.kind = "none"
    /\ \E u \in UserIds, both \in BOOLEAN, d \in {102} \cup RouteIds,
          image \in {None, Some(201)} :
          AppendChange(with_images(
              DocumentChange(Len(log) + 1, 1, u,
                             IF both THEN <<1, 2>> ELSE <<u>>, d, {}, {}),
              <<image, None, None>>, FALSE))

DeleteOfTypes ==
    /\ request.kind = "none"
    /\ \E id \in {2, 102, 201} : DeleteDocument(id)

FeedOfTypes == \E limit \in SomeLimit : FeedGet(None, limit)

NextLoad == WriteOfTypes \/ DeleteOfTypes \/ FeedOfTypes

SpecLoad == InitShort /\ [][NextLoad]_vars

----------------------------------------------------------------------------
(* SpecSearch: get_documents, called with any list of ids on waypoints *)
(* that were created and merged before                                 *)

\* a waypoint is created
CreateDocument ==
    /\ ~search.called
    /\ \E id \in WaypointIds \ {doc.document_id : doc \in search.documents} :
          search' = [search EXCEPT !.documents =
                        @ \cup {[document_id |-> id, redirects_to |-> None]}]
    /\ UNCHANGED <<log, user, users, deleted, request, response, chain,
                   waypoints>>

\* a waypoint is merged into another one
MergeDocument ==
    /\ ~search.called
    /\ \E source, target \in search.documents :
          /\ source # target
          /\ source.redirects_to = None
          /\ target.redirects_to = None
          /\ search' = [search EXCEPT !.documents =
                           (@ \ {source})
                           \cup {[source EXCEPT !.redirects_to =
                                       Some(target.document_id)]}]
    /\ UNCHANGED <<log, user, users, deleted, request, response, chain,
                   waypoints>>

\* the lists of at most MaxIds ids
IdLists == UNION {[1..n -> WaypointIds] : n \in 0..MaxIds}

GetDocuments ==
    /\ \E document_ids \in IdLists :
          search' = [search EXCEPT
                        !.called = TRUE,
                        !.document_ids = document_ids,
                        !.result = get_documents(document_ids, search.documents)]
    /\ UNCHANGED <<log, user, users, deleted, request, response, chain,
                   waypoints>>

NextSearch == CreateDocument \/ MergeDocument \/ GetDocuments

SpecSearch == InitShort /\ [][NextSearch]_vars

----------------------------------------------------------------------------
(* SpecWaypoint: WaypointRest.put, called by two clients with documents *)
(* they made out of the waypoint they got before                        *)

Cultures == {"fr", "en"}
Elevations == {1, 2}
Titles == {1, 2}
Clients == {1, 2}

\* the row of a locale and the row of a waypoint with its locales by culture
DocumentLocale(version, title) == [version |-> version, title |-> title]

Waypoint(document_id, version, elevation, locales) ==
    [document_id |-> document_id, version |-> version,
     elevation |-> elevation, locales |-> locales]

\* Document.get_locale
get_locale(waypoint, culture) ==
    IF culture \in DOMAIN waypoint.locales
    THEN Some(waypoint.locales[culture])
    ELSE None

\* Document.get_versions
get_versions(waypoint) ==
    [document |-> waypoint.version,
     locales |-> [c \in DOMAIN waypoint.locales |-> waypoint.locales[c].version]]

\* the locale of the passed-in document for the culture, after the list
locale_in_for(waypoint_in, culture) ==
    LET at == {i \in 1..Len(waypoint_in.locales) :
                  waypoint_in.locales[i].culture = culture}
    IN  waypoint_in.locales[CHOOSE i \in at : \A j \in at : j <= i]

cultures_in(waypoint_in) ==
    {waypoint_in.locales[i].culture : i \in 1..Len(waypoint_in.locales)}

\* waypoint.update(waypoint_in) and the flush: the attributes and the
\* passed-in locales are copied, a row that changed gets the next version,
\* a locale of a new culture is inserted with version 1
update(waypoint, waypoint_in) ==
    Waypoint(
        waypoint.document_id,
        IF waypoint_in.elevation # waypoint.elevation
        THEN waypoint.version + 1 ELSE waypoint.version,
        waypoint_in.elevation,
        [c \in DOMAIN waypoint.locales \cup cultures_in(waypoint_in) |->
            IF c \notin cultures_in(waypoint_in) THEN waypoint.locales[c]
            ELSE IF c \notin DOMAIN waypoint.locales
            THEN DocumentLocale(1, locale_in_for(waypoint_in, c).title)
            ELSE IF locale_in_for(waypoint_in, c).title
                        # waypoint.locales[c].title
            THEN DocumentLocale(waypoint.locales[c].version + 1,
                                locale_in_for(waypoint_in, c).title)
            ELSE waypoint.locales[c]])

\* Document.get_update_type
get_update_type(waypoint, old_versions) ==
    LET figures_equal == waypoint.version = old_versions.document
        changed_langs ==
            {c \in DOMAIN waypoint.locales :
                \/ c \notin DOMAIN old_versions.locales
                \/ old_versions.locales[c] # waypoint.locales[c].version}
    IN  [update_type |->
            IF ~figures_equal /\ changed_langs # {} THEN "ALL"
            ELSE IF changed_langs # {} THEN "LANG"
            ELSE IF ~figures_equal THEN "FIGURES"
            ELSE "NONE",
         changed_langs |-> changed_langs]

\* _get_waypoint without culture: the waypoint of the id, or None
\* (HTTPNotFound)
_get_waypoint(table, id) ==
    IF id \in DOMAIN table THEN Some(table[id]) ELSE None

\* _check_document_id: TRUE when no HTTPBadRequest is raised
_check_document_id(id, document_id) == id = document_id

\* _check_versions with the locales only: the version of the document is
\* not compared
_check_versions_of_locales(waypoint, waypoint_in) ==
    \A i \in 1..Len(waypoint_in.locales) :
        LET locale_in == waypoint_in.locales[i]
            locale == get_locale(waypoint, locale_in.culture)
        IN  locale # None => Some(Val(locale).version) = locale_in.version

\* _check_versions: TRUE when no HTTPConflict is raised
_check_versions(waypoint, waypoint_in) ==
    /\ Some(waypoint.version) = waypoint_in.version
    /\ \A i \in 1..Len(waypoint_in.locales) :
          LET locale_in == waypoint_in.locales[i]
              locale == get_locale(waypoint, locale_in.culture)
          IN  locale # None => Some(Val(locale).version) = locale_in.version

\* _check_update_type: TRUE when no HTTPBadRequest is raised
_check_update_type(waypoint, old_versions) ==
    get_update_type(waypoint, old_versions).update_type # "NONE"

\* WaypointRest.put: the status, the table and the archive after it
put(table, archive, id, waypoint_in) ==
    IF ~_check_document_id(id, waypoint_in.document_id)
    THEN [status |-> 400, table |-> table, archive |-> archive]
    ELSE IF _get_waypoint(table, id) = None
    THEN [status |-> 404, table |-> table, archive |-> archive]
    ELSE IF ~_check_versions(Val(_get_waypoint(table, id)), waypoint_in)
    THEN [status |-> 409, table |-> table, archive |-> archive]
    ELSE IF ~_check_update_type(
                update(Val(_get_waypoint(table, id)), waypoint_in),
                get_versions(Val(_get_waypoint(table, id))))
    THEN [status |-> 400, table |-> table, archive |-> archive]
    ELSE [status |-> 200,
          table |-> [table EXCEPT
                        ![id] = update(Val(_get_waypoint(table, id)),
                                       waypoint_in)],
          archive |-> archive + 1]

\* the lists of locales a client sends for the waypoint it got: for any
\* of the cultures, fr first, a title, and the version it got for the
\* culture, none for a culture it did not get
LocalesIn(base) ==
    LET one(c) ==
            {<<[culture |-> c,
                version |-> IF c \in DOMAIN base.locales
                            THEN Some(base.locales[c].version) ELSE None,
                title |-> t]>> : t \in Titles}
    IN  {<<>>} \cup one("fr") \cup one("en")
               \cup {f \o e : f \in one("fr"), e \in one("en")}

\* the documents a client sends for the waypoint it got
WaypointsIn(base) ==
    {[document_id |-> d, version |-> Some(base.version),
      elevation |-> e, locales |-> ls] :
        d \in {401, 402}, e \in Elevations, ls \in LocalesIn(base)}

\* WaypointRest.collection_post: the waypoint 401 is stored with the
\* locale fr, and its first version is archived
PostWaypoint ==
    /\ 401 \notin DOMAIN waypoints.table
    /\ waypoints' = [waypoints EXCEPT
          !.table = [id \in {401} |->
                        Waypoint(401, 1, 1,
                                 [c \in {"fr"} |-> DocumentLocale(1, 1)])],
          !.archive = @ + 1]
    /\ UNCHANGED <<log, user, users, deleted, request, response, chain,
                   search>>

\* WaypointRest.get: a client gets the waypoint 401
GetWaypoint ==
    /\ 401 \in DOMAIN waypoints.table
    /\ waypoints.puts < MaxPuts
    /\ \E client \in Clients :
          /\ waypoints.read[client] # Some(waypoints.table[401])
          /\ waypoints' = [waypoints EXCEPT
                              !.read[client] = Some(waypoints.table[401])]
    /\ UNCHANGED <<log, user, users, deleted, request, response, chain,
                   search>>

\* the put as the state keeps it: the request, the waypoint the client
\* made it from, the table and the archive before it, the status
PutDone(id, waypoint_in, base, done) ==
    [id |-> id, waypoint_in |-> waypoint_in, base |-> base,
     table |-> waypoints.table, archive |-> waypoints.archive,
     status |-> done.status]

\* a client puts a document it made from the waypoint it got
Put ==
    /\ waypoints.puts < MaxPuts
    /\ \E client \in Clients, id \in {401, 402} :
          /\ waypoints.read[client] # None
          /\ \E waypoint_in \in WaypointsIn(Val(waypoints.read[client])) :
                /\ id = 402 \/ waypoint_in.document_id = 401
                /\ waypoints' = [waypoints EXCEPT
                    !.table = put(@, waypoints.archive, id, waypoint_in).table,
                    !.archive =
                        put(waypoints.table, @, id, waypoint_in).archive,
                    !.puts = @ + 1,
                    !.prev = IF waypoints.last # None
                                /\ Val(waypoints.last).status = 200
                             THEN waypoints.last ELSE @,
                    !.last = Some(PutDone(id, waypoint_in,
                                 Val(waypoints.read[client]),
                                 put(waypoints.table, waypoints.archive,
                                     id, waypoint_in)))]
    /\ UNCHANGED <<log, user, users, deleted, request, response, chain,
                   search>>

NextWaypoint == PostWaypoint \/ GetWaypoint \/ Put

SpecWaypoint == InitShort /\ [][NextWaypoint]_vars

----------------------------------------------------------------------------
(* SpecClient: a client that asks for the global feed and goes on with  *)
(* the token of the last response as long as there is one, on a log     *)
(* written and with the document 101 deleted or not before; the client  *)
(* does not stop before the end                                         *)

WriteBefore ==
    /\ Len(log) < MaxClientLog
    /\ request.kind = "none"
    /\ \E t \in Times, d \in DocumentIds :
          AppendChange(DocumentChange(Len(log) + 1, t, 1, <<1>>, d, {}, {}))

DeleteBeforeFirst ==
    /\ request.kind = "none"
    /\ DeleteDocument(101)

ClientRequest ==
    \E limit \in {Some(1), Some(2)} :
        IF request.kind = "none"
        THEN FeedGet(None, limit)
        ELSE chain.token # None /\ FeedGet(chain.token, limit)

NextClient == WriteBefore \/ DeleteBeforeFirst \/ ClientRequest

\* ClientRequest is not enabled: the client got a response without token
\* (or as many pages as the model lets a client get)
ClientStopped ==
    /\ request.kind # "none"
    /\ chain.token = None \/ Len(chain.pages) >= MaxPages

\* weak fairness of ClientRequest, WF_vars(ClientRequest), with the
\* condition under which the action is not enabled written out
ClientGoesOn == []<>ClientStopped \/ []<><<ClientRequest>>_vars

SpecClient == InitShort /\ [][NextClient]_vars /\ ClientGoesOn

----------------------------------------------------------------------------
(* SpecLimit: the global feed of the long log, asked for with any limit *)

AnyLimit ==
    {None, Some(-1), Some(0), Some(1), Some(MAX_PAGE_LIMIT),
     Some(MAX_PAGE_LIMIT + 1), Some(1000)}

InitLimit == Init /\ log = LongLog

FeedAnyLimit ==
    \E token \in Tokens, limit \in AnyLimit : FeedGet(token, limit)

NextLimit == Delete \/ FeedAnyLimit

SpecLimit == InitLimit /\ [][NextLimit]_vars

----------------------------------------------------------------------------
(* Properties of the pagination, checked under Spec *)

\* the feed ids of all the pages of the chain, one after the other
RECURSIVE Concat(_)
Concat(pages) ==
    IF pages = <<>> THEN <<>> ELSE pages[1].ids \o Concat(Tail(pages))

\* the actor and the document of the change resolve
Hydrates(c) == c.user_id \notin deleted /\ c.document_id \notin deleted

\* the response of a request of the global feed, now
GlobalFeedNow(token, limit) ==
    LET p == get_params(validate_token_pagination(token, limit))
    IN  IF p.limit < 0 THEN Raised(500)
        ELSE load_feed(get_changes_of_feed(p.token_id, p.token_time, p.limit, NoFilter))

\* the response of one request of the global feed, without token, now
Single(limit) == GlobalFeedNow(None, limit)

\* no element of the sequence occurs twice
NoDuplicate(seq) ==
    \A i, j \in DOMAIN seq : i # j => seq[i] # seq[j]

\* the chain is two pages of the global feed, both with an explicit limit of
\* at least 1, on a log and documents that did not change meanwhile
TwoPages ==
    /\ chain.kind = "feed"
    /\ chain.fixed
    /\ Len(chain.pages) = 2
    /\ \A i \in 1..2 : chain.pages[i].limit # None /\ Val(chain.pages[i].limit) >= 1

\* the limit of page 1 plus the limit of page 2
SumOfLimits == Val(chain.pages[1].limit) + Val(chain.pages[2].limit)

\* C5, as claimed (for limits whose sum is no more than MAX_PAGE_LIMIT):
\* page 1 (limit k1) followed by page 2 (page 1's token, limit k2) is the
\* feed of one request with limit k1 + k2
C5_PagesEqualSingle ==
    (TwoPages /\ SumOfLimits <= MAX_PAGE_LIMIT)
    => Concat(chain.pages) = ids_of(Single(Some(SumOfLimits)))

\* the last change fetched for the page is in the feed of the page
LastFetchedKept(page) ==
    /\ page.fetched # <<>>
    /\ page.ids # <<>>
    /\ page.ids[Len(page.ids)] = page.fetched[Len(page.fetched)]

\* C5, amended: page 1 followed by page 2 is the feed of one request with
\* limit k1 + k2 when k1 + k2 is at most MAX_PAGE_LIMIT and the last change
\* fetched for page 1 was hydrated, so that page 1's token ends the fetched page
C5_PagesEqualSingleWithinMax ==
    (/\ TwoPages
     /\ SumOfLimits <= MAX_PAGE_LIMIT
     /\ LastFetchedKept(chain.pages[1]))
    => /\ Concat(chain.pages) = ids_of(Single(Some(SumOfLimits)))
       /\ NoDuplicate(Concat(chain.pages))

\* C5, witness: two pages that together hold three changes, one of them
\* dropped from page 1 because its document is deleted
C5_Witness ==
    /\ TwoPages
    /\ SumOfLimits <= MAX_PAGE_LIMIT
    /\ LastFetchedKept(chain.pages[1])
    /\ Len(chain.pages[1].ids) < Len(chain.pages[1].fetched)
    /\ chain.pages[2].ids # <<>>

\* C6: no change is in the feeds of two pages of a chain, whatever was added
\* to the log or deleted between the requests
C6_NoChangeTwice ==
    chain.pages # <<>> => NoDuplicate(Concat(chain.pages))

\* C6, witness: a chain of two pages with a change added between the two
\* requests, whose feeds hold two changes of the same time
C6_Witness ==
    /\ Len(chain.pages) >= 2
    /\ chain.pages[1].size < chain.pages[2].size
    /\ chain.pages[2].ids # <<>>
    /\ \E i \in Range(chain.pages[1].ids), j \in Range(chain.pages[2].ids) :
          log[i].time = log[j].time

\* the chain started at the first page and ended with a response without
\* token, every request with a limit of at least 1 (or the default), on a
\* log and documents that did not change meanwhile
ChainEnded ==
    /\ chain.kind = "feed"
    /\ chain.fixed
    /\ chain.pages # <<>>
    /\ chain.token = None
    /\ \A i \in DOMAIN chain.pages :
          /\ chain.pages[i].status = 200
          /\ chain.pages[i].limit # None => Val(chain.pages[i].limit) >= 1

\* C7, as claimed: when the chain has ended, every change of the log whose
\* actor and document hydrate is in the feed of one of its pages
C7_EveryHydratedChangeReturned ==
    ChainEnded =>
        \A i \in DOMAIN log :
            Hydrates(log[i]) => log[i].change_id \in Range(Concat(chain.pages))

----------------------------------------------------------------------------
(* Properties of the order and the resumption, checked under SpecResume *)

\* the canonical order: time descending, change_id ascending
CanonicallyBefore(a, b) ==
    \/ a.time > b.time
    \/ a.time = b.time /\ a.change_id < b.change_id

\* the changes of the feed of the last response
Returned == [i \in DOMAIN ids_of(response) |-> log[ids_of(response)[i]]]

\* the last request came with a token
Resumed == request.params.token_id # None /\ request.params.token_time # None

\* C8: the changes of a page are in canonical order; a request with the
\* token (id, t) returns no change later than t and, of the changes of the
\* time t, only those with a change_id greater than id
C8_CanonicalOrderAndResume ==
    request.kind = "feed" =>
        /\ \A i, j \in DOMAIN Returned :
              i < j => CanonicallyBefore(Returned[i], Returned[j])
        /\ Resumed =>
              \A i \in DOMAIN Returned :
                  /\ Returned[i].time <= Val(request.params.token_time)
                  /\ Returned[i].time = Val(request.params.token_time)
                        => Returned[i].change_id > Val(request.params.token_id)

\* C8, witness: a request with a token of the time of three changes, one
\* with the id of the token; the page holds the change after it and an
\* older one
C8_Witness ==
    /\ request.kind = "feed"
    /\ Resumed
    /\ Len(Returned) = 2
    /\ Returned[1].time = Val(request.params.token_time)
    /\ Returned[2].time < Val(request.params.token_time)
    /\ \E i \in DOMAIN log :
          /\ log[i].time = Val(request.params.token_time)
          /\ log[i].change_id = Val(request.params.token_id)

----------------------------------------------------------------------------
(* Properties of the limit, checked under SpecLimit *)

\* C9, as claimed: the limit of the query is in 1..MAX_PAGE_LIMIT, it is
\* DEFAULT_PAGE_LIMIT without a limit parameter and MAX_PAGE_LIMIT for a
\* parameter above it; a feed has at most MAX_PAGE_LIMIT entries, and at
\* most DEFAULT_PAGE_LIMIT when the parameter is absent
C9_LimitWithinBounds ==
    request.kind = "feed" =>
        /\ request.params.limit \in 1..MAX_PAGE_LIMIT
        /\ request.limit = None => request.params.limit = DEFAULT_PAGE_LIMIT
        /\ (request.limit # None /\ Val(request.limit) > MAX_PAGE_LIMIT)
              => request.params.limit = MAX_PAGE_LIMIT
        /\ Len(ids_of(response)) <= MAX_PAGE_LIMIT
        /\ request.limit = None => Len(ids_of(response)) <= DEFAULT_PAGE_LIMIT

----------------------------------------------------------------------------
(* Properties of the personal filter, checked under SpecPersonal *)

\* the last response is one of the personal feed, of the log as it is now
PersonalNow ==
    /\ request.kind = "personal"
    /\ chain.pages # <<>>
    /\ chain.pages[Len(chain.pages)].size = Len(log)

\* the change involves a user the user follows
OfFollowed(c) == Range(c.user_ids) \cap user.followed # {}

\* the change is in an area of the user's area filter
InArea(c) == c.area_ids \cap user.areas # {}

\* the change has an activity of the user's activity filter
InActivity(c) == c.activities \cap user.feed_filter_activities # {}

\* C1, as claimed: every change of the personal feed of a user with
\* feed_followed_only involves a user of the followed-user set
C1_FollowedOnly ==
    (request.kind = "personal" /\ user.feed_followed_only)
    => \A i \in DOMAIN Returned : OfFollowed(Returned[i])

\* the predicate of the five precedence steps holds of the change
StepsPredicate(c) ==
    IF user.feed_followed_only THEN OfFollowed(c)
    ELSE IF user.areas = {} /\ user.feed_filter_activities = {} THEN TRUE
    ELSE LET AreaActivity ==
                 /\ user.areas # {} => InArea(c)
                 /\ user.feed_filter_activities # {} => InActivity(c)
         IN  IF user.followed # {} THEN AreaActivity \/ OfFollowed(c)
             ELSE AreaActivity

BothFiltersWholeFeed ==
    /\ PersonalNow
    /\ ~user.feed_followed_only
    /\ user.areas # {}
    /\ user.feed_filter_activities # {}
    /\ request.token = None
    /\ Len(log) <= request.params.limit

\* the ids of the changes of the log that satisfy P
Selected(P(_)) == {log[i].change_id : i \in {j \in DOMAIN log : P(log[j])}}

\* C3, as claimed: the feed holds exactly the changes in the area OR with
\* the activity, and those of the followed users
C3_AreaOrActivity ==
    BothFiltersWholeFeed =>
        Range(ids_of(response)) =
            Selected(LAMBDA c : InArea(c) \/ InActivity(c) \/ OfFollowed(c))

\* C3, amended: the feed holds exactly the changes in the area AND with the
\* activity, and those of the followed users
C3_AreaAndActivity ==
    BothFiltersWholeFeed =>
        Range(ids_of(response)) =
            Selected(LAMBDA c : (InArea(c) /\ InActivity(c)) \/ OfFollowed(c))

\* C3, witness: the user follows a user; the feed leaves out a change in the
\* area without the activity and holds a change of the followed user that
\* is not in the area
C3_Witness ==
    /\ BothFiltersWholeFeed
    /\ user.followed # {}
    /\ \E i \in DOMAIN log :
          /\ InArea(log[i]) /\ ~InActivity(log[i])
          /\ log[i].change_id \notin Range(ids_of(response))
    /\ \E i \in DOMAIN log :
          /\ ~InArea(log[i]) /\ OfFollowed(log[i])
          /\ log[i].change_id \in Range(ids_of(response))

\* the user has no area filter, no activity filter and not feed_followed_only
NoAreaNoActivity ==
    /\ ~user.feed_followed_only
    /\ user.areas = {}
    /\ user.feed_filter_activities = {}

\* C4: without area filter, activity filter and feed_followed_only, the
\* response of the personal feed is the response of the global feed for the
\* same token and limit
C4_PersonalIsGlobal ==
    (PersonalNow /\ NoAreaNoActivity)
    => response = GlobalFeedNow(request.token, request.limit)

\* C4, witness: a user who follows a user asks for the second page and gets
\* a change none of the followed users is involved in, and a token
C4_Witness ==
    /\ PersonalNow
    /\ NoAreaNoActivity
    /\ user.followed # {}
    /\ request.token # None
    /\ token_of(response) # None
    /\ \E i \in DOMAIN Returned : ~OfFollowed(Returned[i])

----------------------------------------------------------------------------
(* Properties of the hydration, checked under SpecHydrate *)

\* the view the document retrieval gives of a document
View(id) == [document_id |-> id, type |-> TypeOf(id)]

\* C10: the handler does not fail, and every entry of the feed has the view
\* of the actor as 'user' and the view of the target as 'document', both
\* loaded by the request; a change whose user or document was not loaded
\* has no entry
C10_EntriesHydrated ==
    request.kind = "feed" =>
        /\ response.status = 200
        /\ \A i \in DOMAIN response.body.feed :
              LET e == response.body.feed[i]
                  c == log[e.id]
              IN  /\ e.id \in Range(request.fetched)
                  /\ c.user_id \in request.loaded
                  /\ c.document_id \in request.loaded
                  /\ e.user = View(c.user_id)
                  /\ e.document = View(c.document_id)

\* C10, witness: of three changes fetched, one with the user not loaded and
\* one with the document not loaded, the feed holds the third only
C10_Witness ==
    /\ request.kind = "feed"
    /\ Len(request.fetched) = 3
    /\ Len(ids_of(response)) = 1
    /\ \E i \in Range(request.fetched) :
          log[i].user_id \notin request.loaded /\ log[i].document_id \in request.loaded
    /\ \E i \in Range(request.fetched) :
          log[i].user_id \in request.loaded /\ log[i].document_id \notin request.loaded

----------------------------------------------------------------------------
(* Properties of the images of an entry, checked under SpecImages *)

\* the image slots of an entry and the columns of the change they come from
ImageSlots ==
    {[slot |-> "image1", column |-> "image1_id"],
     [slot |-> "image2", column |-> "image2_id"],
     [slot |-> "image3", column |-> "image3_id"]}

\* the entry of the change c when every image it refers to resolves
AsIfResolved(c) ==
    [id |-> c.change_id,
     time |-> isoformat(c.time),
     user |-> View(c.user_id),
     participants |-> <<>>,
     change_type |-> c.change_type,
     document |-> View(c.document_id),
     image1 |-> IF c.image1_id = None THEN None ELSE Some(View(Val(c.image1_id))),
     image2 |-> IF c.image2_id = None THEN None ELSE Some(View(Val(c.image2_id))),
     image3 |-> IF c.image3_id = None THEN None ELSE Some(View(Val(c.image3_id))),
     more_images |-> c.more_images]

\* the image of the column of the change c is set and does not resolve
Unresolved(c, column) == c[column] # None /\ Val(c[column]) \in deleted

\* C11: the handler does not fail, every fetched change whose actor and
\* document hydrate has its entry, whether its images resolve or not; in the
\* entry a slot whose image does not resolve is None, and every other
\* field has the value it has when every image resolves
C11_UnresolvedImageOnlyEmptiesSlot ==
    request.kind = "feed" =>
        /\ response.status = 200
        /\ ids_of(response) =
              SelectSeq(request.fetched, LAMBDA id : Hydrates(log[id]))
        /\ \A i \in DOMAIN response.body.feed :
              LET e == response.body.feed[i]
                  c == log[e.id]
                  slots == {s.slot : s \in ImageSlots}
              IN  /\ DOMAIN e = DOMAIN AsIfResolved(c)
                  /\ \A s \in ImageSlots :
                        e[s.slot] = IF Unresolved(c, s.column) THEN None
                                    ELSE AsIfResolved(c)[s.slot]
                  /\ \A f \in DOMAIN e \ slots : e[f] = AsIfResolved(c)[f]

\* C11, witness: a page of two entries, the first of a change whose image2
\* does not resolve while its image1 does
C11_Witness ==
    /\ request.kind = "feed"
    /\ response.status = 200
    /\ Len(response.body.feed) = 2
    /\ LET e == response.body.feed[1]
       IN  /\ Unresolved(log[e.id], "image2_id")
           /\ e.image2 = None
           /\ e.image1 # None

----------------------------------------------------------------------------
(* The scenario of two changes, checked under SpecShort *)

\* the log is two changes, the second one later than the first, both
\* hydratable; a client asked for the global feed with limit=1 and went on
\* with the tokens it got, the log and the documents being the same since
TwoChangeScenario ==
    /\ Len(log) = 2
    /\ log[1].time < log[2].time
    /\ Hydrates(log[1]) /\ Hydrates(log[2])
    /\ chain.kind = "feed"
    /\ chain.fixed
    /\ chain.pages # <<>>
    /\ chain.pages[1].limit = Some(1)
    /\ \A i \in DOMAIN chain.pages : chain.pages[i].status = 200

\* C12, as claimed: the first request returns the later change and the token
\* "<id>,<time>" of it; the request with that token returns the earlier
\* change and no token
C12_SecondPageWithoutToken ==
    TwoChangeScenario =>
        /\ chain.pages[1].ids = <<2>>
        /\ Len(chain.pages) = 1 => chain.token = Some("2,2")
        /\ Len(chain.pages) >= 2 => chain.pages[2].ids = <<1>>
        /\ Len(chain.pages) = 2 => chain.token = None

\* C12, as amended: the first request returns the later change and the
\* token "<id>,<time>" of it; the request with that token returns the
\* earlier change and the token of that one; the request with this token
\* returns the empty feed and no token
C12_SecondPageWithToken ==
    TwoChangeScenario =>
        /\ chain.pages[1].ids = <<2>>
        /\ Len(chain.pages) = 1 => chain.token = Some("2,2")
        /\ Len(chain.pages) >= 2 => chain.pages[2].ids = <<1>>
        /\ Len(chain.pages) = 2 => chain.token = Some("1,1")
        /\ Len(chain.pages) = 3 => chain.pages[3].ids = <<>> /\ chain.token = None

\* C12, witness: the scenario after the third request
C12_Witness ==
    /\ TwoChangeScenario
    /\ Len(chain.pages) = 3
    /\ chain.pages[2].ids = <<1>>
    /\ chain.token = None

----------------------------------------------------------------------------
(* Properties of the pagination token of a response *)

\* C13: a feed response has the key 'pagination_token' exactly when its
\* feed is not empty (checked under SpecHydrate)
C13_TokenIffFeedNotEmpty ==
    /\ response.status = 200
    /\ "pagination_token" \in DOMAIN response.body <=> response.body.feed # <<>>

\* C13, witness: changes were fetched and all of them dropped, the response
\* has neither an entry nor a token
C13_Witness ==
    /\ request.kind = "feed"
    /\ Len(request.fetched) >= 2
    /\ response.status = 200
    /\ response.body.feed = <<>>
    /\ "pagination_token" \notin DOMAIN response.body

\* the limit the query of a page was made with
AppliedLimit(page) ==
    Min(IF page.limit = None THEN DEFAULT_PAGE_LIMIT ELSE Val(page.limit),
        MAX_PAGE_LIMIT)

\* the changes fetched for the page after the last one that is in its feed
DroppedTail(page) ==
    LET k == CHOOSE k \in DOMAIN page.fetched :
                 page.fetched[k] = page.ids[Len(page.ids)]
    IN  SubSeq(page.fetched, k + 1, Len(page.fetched))

\* the first n elements of the sequence
Prefix(seq, n) == SubSeq(seq, 1, Min(n, Len(seq)))

\* C14: the token of a response with entries is '<id>,<time>' of its last
\* entry; and on a log and documents that do not change, the page asked for
\* with the token of a page starts with the changes that were fetched for
\* that page after its last entry (checked under Spec)
C14_TokenOfLastSurvivingEntry ==
    /\ (response.status = 200 /\ response.body.feed # <<>>) =>
          LET last == response.body.feed[Len(response.body.feed)]
          IN  /\ "pagination_token" \in DOMAIN response.body
              /\ response.body.pagination_token
                    = ToString(last.id) \o "," \o last.time
              /\ last.time = ToString(log[last.id].time)
    /\ (chain.kind = "feed" /\ chain.fixed) =>
          \A i \in 1..(Len(chain.pages) - 1) :
              LET page == chain.pages[i]
                  next == chain.pages[i + 1]
              IN  Prefix(next.fetched, Len(DroppedTail(page)))
                    = Prefix(DroppedTail(page), AppliedLimit(next))

\* C14, witness: the last change fetched for page 1 was dropped, and it is
\* the first change fetched for page 2
C14_Witness ==
    /\ chain.kind = "feed"
    /\ chain.fixed
    /\ Len(chain.pages) = 2
    /\ Len(chain.pages[1].fetched) = 2
    /\ Len(chain.pages[1].ids) = 1
    /\ chain.pages[1].ids[1] = chain.pages[1].fetched[1]
    /\ chain.pages[2].fetched # <<>>
    /\ chain.pages[2].fetched[1] = chain.pages[1].fetched[2]

----------------------------------------------------------------------------
(* Properties of the access to the profile feed, checked under SpecProfile *)

\* a row of User with the id exists
Exists(u) == u \in DOMAIN users

Known(u) == Exists(u) /\ users[u].email_validated

C16_ErrorBeforeAnyFetch ==
    (request.kind = "profile" /\ response.status \in {403, 404}) =>
        /\ request.steps = <<"User">>
        /\ request.fetched = <<>>
        /\ request.loaded = {}

\* C16, witness: Forbidden for the private profile of a user who has a
\* change in the log
C16_Witness ==
    /\ request.kind = "profile"
    /\ response.status = 403
    /\ \E i \in DOMAIN log : request.u \in Range(log[i].user_ids)

----------------------------------------------------------------------------
(* Properties of the token of a request, checked under SpecToken *)

\* the change c comes after the cursor (id, t) in the canonical order
AfterCursor(c, id, t) ==
    c.time < t \/ (c.time = t /\ c.change_id > id)

----------------------------------------------------------------------------
(* Properties of the loading of the documents, checked under SpecLoad *)

\* the changes the last request fetched
Fetched == [i \in DOMAIN request.fetched |-> log[request.fetched[i]]]

\* the image ids that are set in the change
ImagesOf(c) ==
    {Val(c[column]) : column \in {k \in {"image1_id", "image2_id", "image3_id"} :
                                     c[k] # None}}

\* every id the changes refer to
Referenced(changes) ==
    UNION {{c.document_id, c.user_id} \cup Range(c.user_ids) \cup ImagesOf(c) :
              c \in Range(changes)}

\* C18: the handler does not fail; there is exactly one retrieval for every
\* document type the fetched changes refer to, made with all the ids of
\* that type, and no other retrieval; the keys of the map of the loaded
\* documents are exactly the ids referred to that resolve
C18_OneRetrievalPerType ==
    request.kind = "feed" =>
        LET ids == Referenced(Fetched)
            types == {TypeOf(id) : id \in ids}
            calls == request.retrievals
        IN  /\ response.status = 200
            /\ Len(calls) = Cardinality(types)
            /\ \A t \in types :
                  Cardinality({i \in DOMAIN calls : calls[i].document_type = t}) = 1
            /\ \A i \in DOMAIN calls :
                  calls[i].document_ids =
                      {id \in ids : TypeOf(id) = calls[i].document_type}
            /\ request.loaded = ids \ deleted

\* C18, witness: changes of four types of documents were fetched, two ids
\* of one type among them, and an id of each of three types did not resolve
C18_Witness ==
    /\ request.kind = "feed"
    /\ Len(request.retrievals) = 4
    /\ \E i \in DOMAIN request.retrievals :
          Cardinality(request.retrievals[i].document_ids) = 2
    /\ {2, 102, 201} \subseteq Referenced(Fetched) \ request.loaded
    /\ request.loaded # {}

----------------------------------------------------------------------------
(* Properties of search.get_documents, checked under SpecSearch *)

\* the id is the id of a document that is not merged
Resolves(id) ==
    \E doc \in search.documents :
        doc.document_id = id /\ doc.redirects_to = None

\* C19: the result holds, in the order of the ids, the document of every
\* id that resolves to a document that is not merged, and nothing for the
\* other ids; it is empty for the empty list of ids
C19_DocumentsInOrderOfIds ==
    search.called =>
        LET ids == SelectSeq(search.document_ids, Resolves)
        IN  /\ Len(search.result) = Len(ids)
            /\ \A i \in DOMAIN ids :
                  /\ search.result[i] \in search.documents
                  /\ search.result[i].document_id = ids[i]
                  /\ search.result[i].redirects_to = None
            /\ search.document_ids = <<>> => search.result = <<>>

\* C19, witness: of three ids, the first is greater than the last, the one
\* in between is the id of a merged document
C19_Witness ==
    /\ search.called
    /\ Len(search.document_ids) = 3
    /\ search.document_ids[1] > search.document_ids[3]
    /\ \E doc \in search.documents :
          doc.document_id = search.document_ids[2] /\ doc.redirects_to # None
    /\ Len(search.result) = 2
    /\ search.result[1].document_id = search.document_ids[1]
    /\ search.result[2].document_id = search.document_ids[3]

----------------------------------------------------------------------------
(* Properties of the participants of an entry, checked under SpecLoad *)

\* the users of the change other than its actor that resolve, in the order
\* of user_ids
ResolvedParticipants(c) ==
    SelectSeq(c.user_ids, LAMBDA u : u # c.user_id /\ u \notin deleted)

\* C21: every fetched change whose actor and document hydrate has its
\* entry, whether its other users resolve or not; the participants of the
\* entry are the views of the users of the change that are not its actor
\* and that resolve, and the view of the actor is not among them
C21_ParticipantsResolvedWithoutActor ==
    request.kind = "feed" =>
        /\ response.status = 200
        /\ ids_of(response) =
              SelectSeq(request.fetched, LAMBDA id : Hydrates(log[id]))
        /\ \A i \in DOMAIN response.body.feed :
              LET e == response.body.feed[i]
                  c == log[e.id]
                  ids == ResolvedParticipants(c)
              IN  /\ Len(e.participants) = Len(ids)
                  /\ \A k \in DOMAIN ids : e.participants[k] = View(ids[k])
                  /\ View(c.user_id) \notin Range(e.participants)

\* C21, witness: a page of two entries of changes of the user 1 with the
\* user 2, who does not resolve: the entries have no participant
C21_Witness ==
    /\ request.kind = "feed"
    /\ response.status = 200
    /\ Len(response.body.feed) = 2
    /\ 2 \in deleted
    /\ \A i \in DOMAIN response.body.feed :
          /\ log[response.body.feed[i].id].user_ids = <<1, 2>>
          /\ response.body.feed[i].participants = <<>>

----------------------------------------------------------------------------
(* Properties of the changes of the profile feed, checked under SpecProfile *)

\* C24: every change fetched for a served profile feed of the user u, and
\* every entry of the response, is a change with u among its user_ids
C24_OnlyChangesOfUser ==
    (request.kind = "profile" /\ response.status = 200) =>
        /\ \A i \in DOMAIN request.fetched :
              request.u \in Range(log[request.fetched[i]].user_ids)
        /\ \A i \in DOMAIN response.body.feed :
              /\ response.body.feed[i].id \in Range(request.fetched)
              /\ request.u \in Range(log[response.body.feed[i].id].user_ids)

\* C24, witness: the log holds a change of another user alone and a change
\* another user made with u; the profile feed of u, asked for with a token,
\* holds the second one only
C24_Witness ==
    /\ request.kind = "profile"
    /\ request.token # None
    /\ response.status = 200
    /\ Len(response.body.feed) = 1
    /\ log[response.body.feed[1].id].user_id # request.u
    /\ \E i \in DOMAIN log : request.u \notin Range(log[i].user_ids)

----------------------------------------------------------------------------
(* Properties of a client that follows the tokens, checked under SpecClient *)

\* the last response came with entries and the request with a token: the
\* last entry, whose token the response returns, comes after the cursor of
\* the request in the canonical order
TokenAdvances ==
    (/\ request.kind = "feed"
     /\ request.token # None
     /\ response.status = 200
     /\ response.body.feed # <<>>) =>
        LET last == response.body.feed[Len(response.body.feed)]
        IN  /\ response.body.pagination_token
                  = pagination_token(last.id, log[last.id].time)
            /\ response.body.pagination_token # Val(request.token)
            /\ CanonicallyBefore(
                  [time |-> Val(request.params.token_time),
                   change_id |-> Val(request.params.token_id)],
                  log[last.id])

\* the client got the empty feed without token
EndOfFeed ==
    /\ request.kind = "feed"
    /\ response.status = 200
    /\ response.body.feed = <<>>
    /\ "pagination_token" \notin DOMAIN response.body

\* C23: the token of every page with entries is later in the canonical
\* order than the token of its request, and the client that goes on with
\* the last token gets the empty feed without token in the end
C23_TokensAdvanceToTheEnd ==
    []TokenAdvances /\ <>EndOfFeed

\* C23, witness: the end of the feed after two pages with an entry each
C23_Witness ==
    /\ EndOfFeed
    /\ Len(chain.pages) = 3
    /\ Len(chain.pages[1].ids) = 1
    /\ Len(chain.pages[2].ids) = 1
    /\ log[chain.pages[1].ids[1]].time = log[chain.pages[2].ids[1]].time

----------------------------------------------------------------------------
(* C22: the conflicts of WaypointRest.put *)

\* the passed-in document has another version than the stored waypoint,
\* or one of its locales another version than the stored locale of the
\* culture
VersionDiffers(waypoint, waypoint_in) ==
    \/ waypoint_in.version # Some(waypoint.version)
    \/ \E i \in 1..Len(waypoint_in.locales) :
          /\ waypoint_in.locales[i].culture \in DOMAIN waypoint.locales
          /\ waypoint_in.locales[i].version
                # Some(waypoint.locales[waypoint_in.locales[i].culture].version)

\* the last put left the table and the archive as they were
StoredStateUnchanged ==
    /\ waypoints.table = Val(waypoints.last).table
    /\ waypoints.archive = Val(waypoints.last).archive

\* the last put is for the id of its document, a stored waypoint, with
\* a version that differs from the stored one
StalePut ==
    /\ waypoints.last # None
    /\ Val(waypoints.last).id = Val(waypoints.last).waypoint_in.document_id
    /\ Val(waypoints.last).id \in DOMAIN Val(waypoints.last).table
    /\ VersionDiffers(Val(waypoints.last).table[Val(waypoints.last).id],
                      Val(waypoints.last).waypoint_in)

\* the last put was made from the same stored waypoint as the update
\* that was done before it
SecondOfTwo ==
    /\ waypoints.last # None
    /\ waypoints.prev # None
    /\ Val(waypoints.prev).base = Val(waypoints.last).base
    /\ Val(waypoints.prev).table[401] = Val(waypoints.prev).base

\* the update done first changed the elevation, or changed or added the
\* locale of a culture that the document of the last put has as well
FirstChangedWhatSecondCarries ==
    LET first == Val(waypoints.prev)
    IN  \/ first.waypoint_in.elevation # first.base.elevation
        \/ \E c \in cultures_in(first.waypoint_in)
                     \cap cultures_in(Val(waypoints.last).waypoint_in) :
              \/ c \notin DOMAIN first.base.locales
              \/ locale_in_for(first.waypoint_in, c).title
                    # first.base.locales[c].title

\* the last put was rejected and left the stored state as it was
Rejected ==
    /\ Val(waypoints.last).status # 200
    /\ StoredStateUnchanged

====
